---- MODULE Spec2Model ----
(***************************************************************************)
(* Model of the three Pulumi programs of the repository                    *)
(*   src/infra/aws/__main__.py, src/infra/azure/__main__.py,               *)
(*   src/infra/gcp/__main__.py.                                            *)
(* Each program is a straight-line script: it reads the stack              *)
(* configuration, constructs resources (registering one descriptor per     *)
(* constructor call), dispatches on deployment_type with an if/elif chain  *)
(* and calls pulumi.export.  One action models one statement; pc is the    *)
(* statement the interpreter executes next.                                *)
(*                                                                         *)
(* Strings are TLA+ strings, f-strings and Output.concat are \o.  The      *)
(* value of a provider-computed output property (known only after the      *)
(* engine applies the program) is the symbolic string "${<id>.<attr>}".    *)
(* A configuration value is <<>> when the key is absent (config.get        *)
(* returns None) and <<s>> when it is set to s.                            *)
(*                                                                         *)
(* The Pulumi SDK is not part of the repository: a resource constructor is *)
(* taken to accept the arguments the program passes and to register one    *)
(* descriptor; deps are the resources whose outputs appear in its          *)
(* arguments.                                                              *)
(***************************************************************************)
EXTENDS Integers, Sequences, FiniteSets, TLC

VARIABLES
    cloud,            \* which program runs: "aws", "azure" or "gcp"
    cfg,              \* the stack configuration (key -> <<>> or <<value>>)
    pc,               \* next statement of the program
    status,           \* "running", "done" or "failed"
    error,            \* exception that ended the run ("" when none)
    deployment_type,  \* module-level variables of the programs
    app_name,
    location,
    project,
    region,
    zone,
    ami,              \* result of aws.ec2.get_ami (aws, ec2 branch)
    resources,        \* descriptors registered so far, in construction order
    invokes,          \* provider function calls made at program level
    exports,          \* pulumi.export calls made so far, in call order
    run,              \* number of the current run of the program
    prev              \* summary of the previous run of the same configuration

vars == <<cloud, cfg, pc, status, error, deployment_type, app_name, location,
          project, region, zone, ami, resources, invokes, exports, run, prev>>

locals == <<deployment_type, app_name, location, project, region, zone, ami>>

(***************************************************************************)
(* Bounds of the model                                                     *)
(***************************************************************************)
MaxRuns == 2

(***************************************************************************)
(* Inputs: the stack configurations and the environment                    *)
(***************************************************************************)
Clouds == {"aws", "azure", "gcp"}

Absent == <<>>

DeploymentTypeInputs ==
    {Absent, <<"">>, <<"lambda">>, <<"ec2">>, <<"eks">>, <<"functions">>,
     <<"vm">>, <<"aks">>, <<"compute">>, <<"gke">>, <<"fargate">>}

AppNameInputs == {Absent, <<"demo">>, <<"shop">>}

ProjectInputs == {Absent, <<"proj-1">>}

PlaceInputs(v) == {Absent, <<v>>}

\* the keys a program does not read are left absent
Configs(c) ==
    [deploymentType : DeploymentTypeInputs,
     appName        : AppNameInputs,
     location       : IF c = "azure" THEN PlaceInputs("westeurope") ELSE {Absent},
     gcpProject     : IF c = "gcp" THEN ProjectInputs ELSE {Absent},
     region         : IF c = "gcp" THEN PlaceInputs("europe-west1") ELSE {Absent},
     zone           : IF c = "gcp" THEN PlaceInputs("europe-west1-b") ELSE {Absent}]

\* image ids the AMI lookup can return (it depends on the account and the day)
AmiIds == {"ami-0aaa", "ami-0bbb"}

(***************************************************************************)
(* Helpers: configuration access, output properties, descriptors           *)
(***************************************************************************)
Unbound == "<unbound>"

\* config.get(key) or default: None and the empty string are both falsy
GetOr(v, default) == IF v = Absent \/ v[1] = "" THEN default ELSE v[1]
\* variant: the key is read with config.get, which never raises
RequireFails_asGet(v) == FALSE

\* config.require(key) raises ConfigMissingError when the key is absent
RequireFails(v) == v = Absent

\* symbolic value of the output property attr of the resource named id
Out(id, attr) == "${" \o id \o "." \o attr \o "}"

NoArgs ==
    [name     |-> "",    \* physical name / repository id given explicitly
     location |-> "",
     project  |-> "",
     image    |-> "",    \* container image reference
     script   |-> <<>>,  \* startup payload: lines of words
     ingress  |-> {},    \* inbound [protocol, from, to] rules
     egress   |-> {},    \* outbound [protocol, from, to] rules
     machine  |-> "",    \* instance type / VM size / machine type
     nodes    |-> <<>>,  \* node pool arguments, as given
     role     |-> "",    \* role / policy granted or assumed
     member   |-> "",    \* principal of a binding
     route    |-> "",    \* route key / stage name
     tags     |-> {}]    \* network tags (tags / target_tags)

Resource(id, type, deps, args) ==
    [id |-> id, type |-> type, deps |-> deps, args |-> args]

Register(r) == resources' = Append(resources, r)

Export(name, value) ==
    exports' = Append(exports, [name |-> name, value |-> value])

\* an ordinary statement: the run goes on at label next
Goto(next) == /\ pc' = next
              /\ UNCHANGED <<cloud, cfg, status, error, run, prev>>

\* the last statement of the module: the program ends normally
Finish == /\ pc' = "end"
          /\ status' = "done"
          /\ UNCHANGED <<cloud, cfg, error, run, prev>>

\* an uncaught exception ends the program
Raise(exc) == /\ pc' = "end"
              /\ status' = "failed"
              /\ error' = exc
              /\ UNCHANGED <<cloud, cfg, run, prev>>

At(c, label) == cloud = c /\ status = "running" /\ pc = label

(***************************************************************************)
(* src/infra/aws/__main__.py                                               *)
(***************************************************************************)
\* variant: the aws program defaults to the instance deployment
AwsDefaultType_ec2 == "ec2"


AwsDefaultType == "lambda"

Aws_deployment_type ==
    /\ At("aws", "deployment_type")
    /\ deployment_type' = GetOr(cfg.deploymentType, AwsDefaultType)
    /\ Goto("app_name")
    /\ UNCHANGED <<app_name, location, project, region, zone, ami,
                   resources, invokes, exports>>

Aws_app_name ==
    /\ At("aws", "app_name")
    /\ app_name' = GetOr(cfg.appName, "multi-cloud-api")
    /\ Goto("vpc")
    /\ UNCHANGED <<deployment_type, location, project, region, zone, ami,
                   resources, invokes, exports>>

Aws_vpc ==
    /\ At("aws", "vpc")
    /\ Register(Resource(app_name \o "-vpc", "awsx.ec2.Vpc", {}, NoArgs))
    /\ Goto("ecr_repo")
    /\ UNCHANGED <<locals, invokes, exports>>
\* variant: the repository gets a fixed name, without the appName prefix
Aws_ecr_repo_unprefixed ==
    /\ At("aws", "ecr_repo")
    /\ Register(Resource("ecr-repo", "aws.ecr.Repository", {},
                         [NoArgs EXCEPT !.name = app_name]))
    /\ Goto("if")
    /\ UNCHANGED <<locals, invokes, exports>>


Aws_ecr_repo ==
    /\ At("aws", "ecr_repo")
    /\ Register(Resource(app_name \o "-repo", "aws.ecr.Repository", {},
                         [NoArgs EXCEPT !.name = app_name]))
    /\ Goto("if")
    /\ UNCHANGED <<locals, invokes, exports>>
\* variant: the second test also accepts "eks", so eks runs the ec2 branch
Aws_if_eksAsEc2 ==
    /\ At("aws", "if")
    /\ Goto(CASE deployment_type = "lambda"         -> "lambda_role"
              [] deployment_type \in {"ec2", "eks"} -> "security_group"
              [] OTHER                      -> "export_ecr_repository_url")
    /\ UNCHANGED <<locals, resources, invokes, exports>>

\* the if/elif chain of lines 29, 98, 199: no else branch
Aws_if ==
    /\ At("aws", "if")
    /\ Goto(CASE deployment_type = "lambda" -> "lambda_role"
              [] deployment_type = "ec2"    -> "security_group"
              [] deployment_type = "eks"    -> "cluster"
              [] OTHER                      -> "export_ecr_repository_url")
    /\ UNCHANGED <<locals, resources, invokes, exports>>

Aws_lambda_role ==
    /\ At("aws", "lambda_role")
    /\ Register(Resource(app_name \o "-lambda-role", "aws.iam.Role", {},
                         [NoArgs EXCEPT !.member = "lambda.amazonaws.com",
                                        !.role = "sts:AssumeRole"]))
    /\ Goto("lambda_policy")
    /\ UNCHANGED <<locals, invokes, exports>>

Aws_lambda_policy ==
    /\ At("aws", "lambda_policy")
    /\ Register(Resource(app_name \o "-lambda-policy",
                         "aws.iam.RolePolicyAttachment",
                         {app_name \o "-lambda-role"},
                         [NoArgs EXCEPT !.role =
          "arn:aws:iam::aws:policy/service-role/AWSLambdaBasicExecutionRole"]))
    /\ Goto("lambda_function")
    /\ UNCHANGED <<locals, invokes, exports>>
\* variant: the function image is named without the repository URL
Aws_lambda_function_localImage ==
    /\ At("aws", "lambda_function")
    /\ Register(Resource(app_name \o "-function", "aws.lambda_.Function",
                         {app_name \o "-repo", app_name \o "-lambda-role"},
                         [NoArgs EXCEPT !.image = app_name \o ":latest",
                                        !.role =
                              Out(app_name \o "-lambda-role", "arn")]))
    /\ Goto("api_gateway")
    /\ UNCHANGED <<locals, invokes, exports>>


Aws_lambda_function ==
    /\ At("aws", "lambda_function")
    /\ Register(Resource(app_name \o "-function", "aws.lambda_.Function",
                         {app_name \o "-repo", app_name \o "-lambda-role"},
                         [NoArgs EXCEPT !.image =
                              Out(app_name \o "-repo", "repository_url")
                                  \o ":latest",
                                        !.role =
                              Out(app_name \o "-lambda-role", "arn")]))
    /\ Goto("api_gateway")
    /\ UNCHANGED <<locals, invokes, exports>>

Aws_api_gateway ==
    /\ At("aws", "api_gateway")
    /\ Register(Resource(app_name \o "-api", "aws.apigatewayv2.Api", {},
                         NoArgs))
    /\ Goto("integration")
    /\ UNCHANGED <<locals, invokes, exports>>

Aws_integration ==
    /\ At("aws", "integration")
    /\ Register(Resource(app_name \o "-integration",
                         "aws.apigatewayv2.Integration",
                         {app_name \o "-api", app_name \o "-function"},
                         NoArgs))
    /\ Goto("route")
    /\ UNCHANGED <<locals, invokes, exports>>

Aws_route ==
    /\ At("aws", "route")
    /\ Register(Resource(app_name \o "-route", "aws.apigatewayv2.Route",
                         {app_name \o "-api", app_name \o "-integration"},
                         [NoArgs EXCEPT !.route = "$default"]))
    /\ Goto("stage")
    /\ UNCHANGED <<locals, invokes, exports>>

Aws_stage ==
    /\ At("aws", "stage")
    /\ Register(Resource(app_name \o "-stage", "aws.apigatewayv2.Stage",
                         {app_name \o "-api"},
                         [NoArgs EXCEPT !.name = "$default",
                                        !.route = "$default"]))
    /\ Goto("lambda_permission")
    /\ UNCHANGED <<locals, invokes, exports>>

Aws_lambda_permission ==
    /\ At("aws", "lambda_permission")
    /\ Register(Resource(app_name \o "-lambda-permission",
                         "aws.lambda_.Permission",
                         {app_name \o "-function", app_name \o "-api"},
                         [NoArgs EXCEPT !.role = "lambda:InvokeFunction",
                                        !.member = "apigateway.amazonaws.com"]))
    /\ Goto("export_api_endpoint")
    /\ UNCHANGED <<locals, invokes, exports>>
\* variant: the endpoint is exported under another key
Aws_export_api_endpoint_asUrl ==
    /\ At("aws", "export_api_endpoint")
    /\ Export("api_url", Out(app_name \o "-api", "api_endpoint"))
    /\ Goto("export_lambda_function_name")
    /\ UNCHANGED <<locals, resources, invokes>>


Aws_export_api_endpoint ==
    /\ At("aws", "export_api_endpoint")
    /\ Export("api_endpoint", Out(app_name \o "-api", "api_endpoint"))
    /\ Goto("export_lambda_function_name")
    /\ UNCHANGED <<locals, resources, invokes>>

Aws_export_lambda_function_name ==
    /\ At("aws", "export_lambda_function_name")
    /\ Export("lambda_function_name", Out(app_name \o "-function", "name"))
    /\ Goto("export_ecr_repository_url")
    /\ UNCHANGED <<locals, resources, invokes>>

Aws_security_group ==
    /\ At("aws", "security_group")
    /\ Register(Resource(app_name \o "-sg", "aws.ec2.SecurityGroup",
                         {app_name \o "-vpc"},
                         [NoArgs EXCEPT
                            !.ingress = {[protocol |-> "tcp", from |-> 8080,
                                          to |-> 8080],
                                         [protocol |-> "tcp", from |-> 80,
                                          to |-> 80]},
                            !.egress = {[protocol |-> "-1", from |-> 0,
                                         to |-> 0]}]))
    /\ Goto("ami")
    /\ UNCHANGED <<locals, invokes, exports>>

\* aws.ec2.get_ami(most_recent=True, ...): the answer is the environment's
Aws_ami ==
    /\ At("aws", "ami")
    /\ \E id \in AmiIds : ami' = id
    /\ invokes' = Append(invokes, "aws.ec2.get_ami")
    /\ Goto("ec2_role")
    /\ UNCHANGED <<deployment_type, app_name, location, project, region, zone,
                   resources, exports>>

\* the f-string of lines 141-156, one sequence of words per line
AwsUserData(url) ==
    << <<"#!/bin/bash">>,
       <<"yum", "update", "-y">>,
       <<"yum", "install", "-y", "docker">>,
       <<"service", "docker", "start">>,
       <<"usermod", "-a", "-G", "docker", "ec2-user">>,
       <<>>,
       <<"#", "Install", "AWS", "CLI", "v2">>,
       <<"curl",
         "\"https://awscli.amazonaws.com/awscli-exe-linux-x86_64.zip\"",
         "-o", "\"awscliv2.zip\"">>,
       <<"unzip", "awscliv2.zip">>,
       <<"./aws/install">>,
       <<>>,
       <<"#", "Login", "to", "ECR", "and", "pull", "image">>,
       <<"aws", "ecr", "get-login-password", "--region", "us-east-1", "|",
         "docker", "login", "--username", "AWS", "--password-stdin", url>>,
       <<"docker", "pull", url \o ":latest">>,
       <<"docker", "run", "-d", "-p", "80:8080", url \o ":latest">> >>

Aws_ec2_role ==
    /\ At("aws", "ec2_role")
    /\ Register(Resource(app_name \o "-ec2-role", "aws.iam.Role", {},
                         [NoArgs EXCEPT !.member = "ec2.amazonaws.com",
                                        !.role = "sts:AssumeRole"]))
    /\ Goto("ecr_policy")
    /\ UNCHANGED <<locals, invokes, exports>>

Aws_ecr_policy ==
    /\ At("aws", "ecr_policy")
    /\ Register(Resource(app_name \o "-ecr-policy",
                         "aws.iam.RolePolicyAttachment",
                         {app_name \o "-ec2-role"},
                         [NoArgs EXCEPT !.role =
              "arn:aws:iam::aws:policy/AmazonEC2ContainerRegistryReadOnly"]))
    /\ Goto("instance_profile")
    /\ UNCHANGED <<locals, invokes, exports>>

Aws_instance_profile ==
    /\ At("aws", "instance_profile")
    /\ Register(Resource(app_name \o "-instance-profile",
                         "aws.iam.InstanceProfile",
                         {app_name \o "-ec2-role"}, NoArgs))
    /\ Goto("instance")
    /\ UNCHANGED <<locals, invokes, exports>>
\* variant: the instance is named after the image the lookup returned
Aws_instance_namedByAmi ==
    /\ At("aws", "instance")
    /\ Register(Resource(app_name \o "-instance-" \o ami, "aws.ec2.Instance",
                         {app_name \o "-sg", app_name \o "-vpc",
                          app_name \o "-repo",
                          app_name \o "-instance-profile"},
                         [NoArgs EXCEPT
                            !.machine = "t3.small",
                            !.image = ami,
                            !.script = AwsUserData(
                                Out(app_name \o "-repo", "repository_url")),
                            !.role = Out(app_name \o "-instance-profile",
                                         "name")]))
    /\ Goto("export_ec2_public_ip")
    /\ UNCHANGED <<locals, invokes, exports>>


Aws_instance ==
    /\ At("aws", "instance")
    /\ Register(Resource(app_name \o "-instance", "aws.ec2.Instance",
                         {app_name \o "-sg", app_name \o "-vpc",
                          app_name \o "-repo",
                          app_name \o "-instance-profile"},
                         [NoArgs EXCEPT
                            !.machine = "t3.small",
                            !.image = ami,
                            !.script = AwsUserData(
                                Out(app_name \o "-repo", "repository_url")),
                            !.role = Out(app_name \o "-instance-profile",
                                         "name")]))
    /\ Goto("export_ec2_public_ip")
    /\ UNCHANGED <<locals, invokes, exports>>

Aws_export_ec2_public_ip ==
    /\ At("aws", "export_ec2_public_ip")
    /\ Export("ec2_public_ip", Out(app_name \o "-instance", "public_ip"))
    /\ Goto("export_ec2_public_dns")
    /\ UNCHANGED <<locals, resources, invokes>>

Aws_export_ec2_public_dns ==
    /\ At("aws", "export_ec2_public_dns")
    /\ Export("ec2_public_dns", Out(app_name \o "-instance", "public_dns"))
    /\ Goto("export_ecr_repository_url")
    /\ UNCHANGED <<locals, resources, invokes>>

Aws_cluster ==
    /\ At("aws", "cluster")
    /\ Register(Resource(app_name \o "-eks", "aws.eks.Cluster",
                         {app_name \o "-vpc"},
                         [NoArgs EXCEPT !.machine = "t3.medium",
                                        !.nodes = [min_size |-> 1,
                                                   desired_capacity |-> 2,
                                                   max_size |-> 3]]))
    /\ Goto("export_kubeconfig")
    /\ UNCHANGED <<locals, invokes, exports>>

Aws_export_kubeconfig ==
    /\ At("aws", "export_kubeconfig")
    /\ Export("kubeconfig", Out(app_name \o "-eks", "kubeconfig"))
    /\ Goto("export_cluster_name")
    /\ UNCHANGED <<locals, resources, invokes>>
\* variant: the eks branch exports the cluster's VPC under the common key
Aws_export_cluster_name_asVpcId ==
    /\ At("aws", "export_cluster_name")
    /\ Export("vpc_id", Out(app_name \o "-eks", "vpc_id"))
    /\ Goto("export_ecr_repository_url")
    /\ UNCHANGED <<locals, resources, invokes>>


Aws_export_cluster_name ==
    /\ At("aws", "export_cluster_name")
    /\ Export("cluster_name", Out(app_name \o "-eks", "eks_cluster.name"))
    /\ Goto("export_ecr_repository_url")
    /\ UNCHANGED <<locals, resources, invokes>>

Aws_export_ecr_repository_url ==
    /\ At("aws", "export_ecr_repository_url")
    /\ Export("ecr_repository_url", Out(app_name \o "-repo", "repository_url"))
    /\ Goto("export_deployment_type")
    /\ UNCHANGED <<locals, resources, invokes>>
\* variant: the raw configuration value is exported, not the defaulted one
Aws_export_deployment_type_raw ==
    /\ At("aws", "export_deployment_type")
    /\ Export("deployment_type",
              IF cfg.deploymentType = Absent THEN "None"
                                             ELSE cfg.deploymentType[1])
    /\ Goto("export_vpc_id")
    /\ UNCHANGED <<locals, resources, invokes>>


Aws_export_deployment_type ==
    /\ At("aws", "export_deployment_type")
    /\ Export("deployment_type", deployment_type)
    /\ Goto("export_vpc_id")
    /\ UNCHANGED <<locals, resources, invokes>>

Aws_export_vpc_id ==
    /\ At("aws", "export_vpc_id")
    /\ Export("vpc_id", Out(app_name \o "-vpc", "vpc_id"))
    /\ Finish
    /\ UNCHANGED <<locals, resources, invokes>>


(***************************************************************************)
(* src/infra/azure/__main__.py                                             *)
(* Lines 39-46 and 253-261 only derive Outputs (their provider calls run   *)
(* inside apply, when the engine resolves them); they register nothing and *)
(* are folded into the statement that follows.                             *)
(***************************************************************************)
AzureDefaultType == "functions"

Azure_deployment_type ==
    /\ At("azure", "deployment_type")
    /\ deployment_type' = GetOr(cfg.deploymentType, AzureDefaultType)
    /\ Goto("app_name")
    /\ UNCHANGED <<app_name, location, project, region, zone, ami,
                   resources, invokes, exports>>

Azure_app_name ==
    /\ At("azure", "app_name")
    /\ app_name' = GetOr(cfg.appName, "multi-cloud-api")
    /\ Goto("location")
    /\ UNCHANGED <<deployment_type, location, project, region, zone, ami,
                   resources, invokes, exports>>

Azure_location ==
    /\ At("azure", "location")
    /\ location' = GetOr(cfg.location, "eastus")
    /\ Goto("resource_group")
    /\ UNCHANGED <<deployment_type, app_name, project, region, zone, ami,
                   resources, invokes, exports>>

Azure_resource_group ==
    /\ At("azure", "resource_group")
    /\ Register(Resource(app_name \o "-rg", "azure.resources.ResourceGroup",
                         {}, [NoArgs EXCEPT !.location = location]))
    /\ Goto("acr")
    /\ UNCHANGED <<locals, invokes, exports>>

Azure_acr ==
    /\ At("azure", "acr")
    /\ Register(Resource(app_name \o "acr",
                         "azure.containerregistry.Registry",
                         {app_name \o "-rg"},
                         [NoArgs EXCEPT !.location =
                              Out(app_name \o "-rg", "location")]))
    /\ Goto("if")
    /\ UNCHANGED <<locals, invokes, exports>>

\* the if/elif chain of lines 26, 101, 232: no else branch
Azure_if ==
    /\ At("azure", "if")
    /\ Goto(CASE deployment_type = "functions" -> "storage_account"
              [] deployment_type = "vm"        -> "vnet"
              [] deployment_type = "aks"       -> "aks"
              [] OTHER                         -> "export_acr_login_server")
    /\ UNCHANGED <<locals, resources, invokes, exports>>

Azure_storage_account ==
    /\ At("azure", "storage_account")
    /\ Register(Resource(app_name \o "storage",
                         "azure.storage.StorageAccount",
                         {app_name \o "-rg"},
                         [NoArgs EXCEPT !.location =
                              Out(app_name \o "-rg", "location")]))
    /\ Goto("app_service_plan")
    /\ UNCHANGED <<locals, invokes, exports>>

Azure_app_service_plan ==
    /\ At("azure", "app_service_plan")
    /\ Register(Resource(app_name \o "-plan", "azure.web.AppServicePlan",
                         {app_name \o "-rg"},
                         [NoArgs EXCEPT !.machine = "EP1",
                                        !.location =
                              Out(app_name \o "-rg", "location")]))
    /\ Goto("function_app")
    /\ UNCHANGED <<locals, invokes, exports>>

Azure_function_app ==
    /\ At("azure", "function_app")
    /\ Register(Resource(app_name \o "-func", "azure.web.WebApp",
                         {app_name \o "-rg", app_name \o "-plan",
                          app_name \o "acr", app_name \o "storage"},
                         [NoArgs EXCEPT
                            !.image = "DOCKER|"
                                \o Out(app_name \o "acr", "login_server")
                                \o "/" \o app_name \o ":latest",
                            !.location =
                              Out(app_name \o "-rg", "location")]))
    /\ Goto("export_function_app_url")
    /\ UNCHANGED <<locals, invokes, exports>>

Azure_export_function_app_url ==
    /\ At("azure", "export_function_app_url")
    /\ Export("function_app_url",
              "https://" \o Out(app_name \o "-func", "default_host_name"))
    /\ Goto("export_function_app_name")
    /\ UNCHANGED <<locals, resources, invokes>>

Azure_export_function_app_name ==
    /\ At("azure", "export_function_app_name")
    /\ Export("function_app_name", Out(app_name \o "-func", "name"))
    /\ Goto("export_acr_login_server")
    /\ UNCHANGED <<locals, resources, invokes>>

Azure_vnet ==
    /\ At("azure", "vnet")
    /\ Register(Resource(app_name \o "-vnet", "azure.network.VirtualNetwork",
                         {app_name \o "-rg"},
                         [NoArgs EXCEPT !.location =
                              Out(app_name \o "-rg", "location")]))
    /\ Goto("subnet")
    /\ UNCHANGED <<locals, invokes, exports>>
\* variant: the subnet names a virtual network that the program never builds
Azure_subnet_wrongVnet ==
    /\ At("azure", "subnet")
    /\ Register(Resource(app_name \o "-subnet", "azure.network.Subnet",
                         {app_name \o "-rg", app_name \o "-network"}, NoArgs))
    /\ Goto("public_ip")
    /\ UNCHANGED <<locals, invokes, exports>>


Azure_subnet ==
    /\ At("azure", "subnet")
    /\ Register(Resource(app_name \o "-subnet", "azure.network.Subnet",
                         {app_name \o "-rg", app_name \o "-vnet"}, NoArgs))
    /\ Goto("public_ip")
    /\ UNCHANGED <<locals, invokes, exports>>

Azure_public_ip ==
    /\ At("azure", "public_ip")
    /\ Register(Resource(app_name \o "-ip", "azure.network.PublicIPAddress",
                         {app_name \o "-rg"},
                         [NoArgs EXCEPT !.location =
                              Out(app_name \o "-rg", "location")]))
    /\ Goto("nsg")
    /\ UNCHANGED <<locals, invokes, exports>>

Azure_nsg ==
    /\ At("azure", "nsg")
    /\ Register(Resource(app_name \o "-nsg",
                         "azure.network.NetworkSecurityGroup",
                         {app_name \o "-rg"},
                         [NoArgs EXCEPT
                            !.ingress = {[protocol |-> "Tcp", from |-> 80,
                                          to |-> 80],
                                         [protocol |-> "Tcp", from |-> 8080,
                                          to |-> 8080]},
                            !.location =
                              Out(app_name \o "-rg", "location")]))
    /\ Goto("nic")
    /\ UNCHANGED <<locals, invokes, exports>>

Azure_nic ==
    /\ At("azure", "nic")
    /\ Register(Resource(app_name \o "-nic", "azure.network.NetworkInterface",
                         {app_name \o "-rg", app_name \o "-subnet",
                          app_name \o "-ip", app_name \o "-nsg"},
                         [NoArgs EXCEPT !.location =
                              Out(app_name \o "-rg", "location")]))
    /\ Goto("vm")
    /\ UNCHANGED <<locals, invokes, exports>>
\* variant: the container is started from an image name without the registry
AzureCustomData_localImage(server, registry, group, app) ==
    << <<"#!/bin/bash">>,
       <<"apt-get", "update">>,
       <<"apt-get", "install", "-y", "docker.io">>,
       <<"systemctl", "start", "docker">>,
       <<"systemctl", "enable", "docker">>,
       <<>>,
       <<"#", "Login", "to", "ACR">>,
       <<"ACR_PASSWORD=$(az", "acr", "credential", "show", "--name",
         registry, "--resource-group", group, "--query",
         "\"passwords[0].value\"", "-o", "tsv)">>,
       <<"echo", "$ACR_PASSWORD", "|", "docker", "login", server, "-u",
         registry, "--password-stdin">>,
       <<>>,
       <<"#", "Pull", "and", "run", "container">>,
       <<"docker", "pull", server \o "/" \o app \o ":latest">>,
       <<"docker", "run", "-d", "-p", "80:8080", app \o ":latest">> >>


\* the f-string of lines 176-189: server, registry, group are args[0..2]
AzureCustomData(server, registry, group, app) ==
    << <<"#!/bin/bash">>,
       <<"apt-get", "update">>,
       <<"apt-get", "install", "-y", "docker.io">>,
       <<"systemctl", "start", "docker">>,
       <<"systemctl", "enable", "docker">>,
       <<>>,
       <<"#", "Login", "to", "ACR">>,
       <<"ACR_PASSWORD=$(az", "acr", "credential", "show", "--name",
         registry, "--resource-group", group, "--query",
         "\"passwords[0].value\"", "-o", "tsv)">>,
       <<"echo", "$ACR_PASSWORD", "|", "docker", "login", server, "-u",
         registry, "--password-stdin">>,
       <<>>,
       <<"#", "Pull", "and", "run", "container">>,
       <<"docker", "pull", server \o "/" \o app \o ":latest">>,
       <<"docker", "run", "-d", "-p", "80:8080",
         server \o "/" \o app \o ":latest">> >>

Azure_vm ==
    /\ At("azure", "vm")
    /\ Register(Resource(app_name \o "-vm", "azure.compute.VirtualMachine",
                         {app_name \o "-rg", app_name \o "-nic",
                          app_name \o "acr"},
                         [NoArgs EXCEPT
                            !.machine = "Standard_B2s",
                            !.name = app_name,
                            !.image = "Canonical:0001-com-ubuntu-server-focal:20_04-lts-gen2:latest",
                            !.role = "SystemAssigned",
                            !.script = AzureCustomData(
                                Out(app_name \o "acr", "login_server"),
                                Out(app_name \o "acr", "name"),
                                Out(app_name \o "-rg", "name"),
                                app_name),
                            !.location =
                              Out(app_name \o "-rg", "location")]))
    /\ Goto("export_vm_public_ip")
    /\ UNCHANGED <<locals, invokes, exports>>

Azure_export_vm_public_ip ==
    /\ At("azure", "export_vm_public_ip")
    /\ Export("vm_public_ip", Out(app_name \o "-ip", "ip_address"))
    /\ Goto("export_vm_name")
    /\ UNCHANGED <<locals, resources, invokes>>

Azure_export_vm_name ==
    /\ At("azure", "export_vm_name")
    /\ Export("vm_name", Out(app_name \o "-vm", "name"))
    /\ Goto("export_acr_login_server")
    /\ UNCHANGED <<locals, resources, invokes>>

Azure_aks ==
    /\ At("azure", "aks")
    /\ Register(Resource(app_name \o "-aks",
                         "azure.containerservice.ManagedCluster",
                         {app_name \o "-rg"},
                         [NoArgs EXCEPT
                            !.machine = "Standard_B2s",
                            !.nodes = [count |-> 2],
                            !.name = app_name,
                            !.role = "SystemAssigned",
                            !.location =
                              Out(app_name \o "-rg", "location")]))
    /\ Goto("export_kubeconfig")
    /\ UNCHANGED <<locals, invokes, exports>>

Azure_export_kubeconfig ==
    /\ At("azure", "export_kubeconfig")
    /\ Export("kubeconfig", Out(app_name \o "-aks", "kubeconfigs[0].value"))
    /\ Goto("export_aks_cluster_name")
    /\ UNCHANGED <<locals, resources, invokes>>

Azure_export_aks_cluster_name ==
    /\ At("azure", "export_aks_cluster_name")
    /\ Export("aks_cluster_name", Out(app_name \o "-aks", "name"))
    /\ Goto("export_acr_login_server")
    /\ UNCHANGED <<locals, resources, invokes>>

Azure_export_acr_login_server ==
    /\ At("azure", "export_acr_login_server")
    /\ Export("acr_login_server", Out(app_name \o "acr", "login_server"))
    /\ Goto("export_deployment_type")
    /\ UNCHANGED <<locals, resources, invokes>>

Azure_export_deployment_type ==
    /\ At("azure", "export_deployment_type")
    /\ Export("deployment_type", deployment_type)
    /\ Goto("export_resource_group_name")
    /\ UNCHANGED <<locals, resources, invokes>>

Azure_export_resource_group_name ==
    /\ At("azure", "export_resource_group_name")
    /\ Export("resource_group_name", Out(app_name \o "-rg", "name"))
    /\ Finish
    /\ UNCHANGED <<locals, resources, invokes>>

(***************************************************************************)
(* src/infra/gcp/__main__.py                                               *)
(***************************************************************************)
GcpDefaultType == "functions"

Gcp_deployment_type ==
    /\ At("gcp", "deployment_type")
    /\ deployment_type' = GetOr(cfg.deploymentType, GcpDefaultType)
    /\ Goto("app_name")
    /\ UNCHANGED <<app_name, location, project, region, zone, ami,
                   resources, invokes, exports>>

Gcp_app_name ==
    /\ At("gcp", "app_name")
    /\ app_name' = GetOr(cfg.appName, "multi-cloud-api")
    /\ Goto("project")
    /\ UNCHANGED <<deployment_type, location, project, region, zone, ami,
                   resources, invokes, exports>>

\* config.require("gcpProject"), line 9
Gcp_project ==
    /\ At("gcp", "project")
    /\ IF RequireFails(cfg.gcpProject)
         THEN /\ Raise("ConfigMissingError")
              /\ UNCHANGED project
         ELSE /\ project' = (IF cfg.gcpProject = Absent THEN "None"
                                                        ELSE cfg.gcpProject[1])
              /\ Goto("region")
    /\ UNCHANGED <<deployment_type, app_name, location, region, zone, ami,
                   resources, invokes, exports>>

Gcp_region ==
    /\ At("gcp", "region")
    /\ region' = GetOr(cfg.region, "us-central1")
    /\ Goto("zone")
    /\ UNCHANGED <<deployment_type, app_name, location, project, zone, ami,
                   resources, invokes, exports>>

Gcp_zone ==
    /\ At("gcp", "zone")
    /\ zone' = GetOr(cfg.zone, "us-central1-a")
    /\ Goto("apis")
    /\ UNCHANGED <<deployment_type, app_name, location, project, region, ami,
                   resources, invokes, exports>>

apis ==
    << "compute.googleapis.com",
       "container.googleapis.com",
       "cloudfunctions.googleapis.com",
       "cloudbuild.googleapis.com",
       "artifactregistry.googleapis.com" >>

\* one iteration of the loop of lines 22-26; resources holds only the
\* services of the earlier iterations when the loop runs
Gcp_enable_api ==
    /\ At("gcp", "apis")
    /\ LET api == apis[Len(resources) + 1]
       IN  Register(Resource("enable-" \o api, "gcp.projects.Service", {},
                             [NoArgs EXCEPT !.name = api,
                                            !.project = project]))
    /\ Goto(IF Len(resources) + 1 < Len(apis) THEN "apis"
                                              ELSE "artifact_repo")
    /\ UNCHANGED <<locals, invokes, exports>>

Gcp_artifact_repo ==
    /\ At("gcp", "artifact_repo")
    /\ Register(Resource(app_name \o "-repo",
                         "gcp.artifactregistry.Repository", {},
                         [NoArgs EXCEPT !.location = region,
                                        !.name = app_name,
                                        !.project = project]))
    /\ Goto("if")
    /\ UNCHANGED <<locals, invokes, exports>>

\* the if/elif chain of lines 36, 81, 159: no else branch
Gcp_if ==
    /\ At("gcp", "if")
    /\ Goto(CASE deployment_type = "functions" -> "bucket"
              [] deployment_type = "compute"   -> "network"
              [] deployment_type = "gke"       -> "cluster"
              [] OTHER                         -> "export_artifact_registry_url")
    /\ UNCHANGED <<locals, resources, invokes, exports>>

Gcp_bucket ==
    /\ At("gcp", "bucket")
    /\ Register(Resource(app_name \o "-bucket", "gcp.storage.Bucket", {},
                         [NoArgs EXCEPT !.location = region,
                                        !.project = project]))
    /\ Goto("cloud_run_service")
    /\ UNCHANGED <<locals, invokes, exports>>

Gcp_cloud_run_service ==
    /\ At("gcp", "cloud_run_service")
    /\ Register(Resource(app_name \o "-service", "gcp.cloudrunv2.Service",
                         {app_name \o "-repo"},
                         [NoArgs EXCEPT
                            !.location = region,
                            !.project = project,
                            !.image = region \o "-docker.pkg.dev/" \o project
                                \o "/"
                                \o Out(app_name \o "-repo", "repository_id")
                                \o "/" \o app_name \o ":latest"]))
    /\ Goto("cloud_run_iam")
    /\ UNCHANGED <<locals, invokes, exports>>

Gcp_cloud_run_iam ==
    /\ At("gcp", "cloud_run_iam")
    /\ Register(Resource(app_name \o "-invoker",
                         "gcp.cloudrunv2.ServiceIamMember",
                         {app_name \o "-service"},
                         [NoArgs EXCEPT
                            !.name = Out(app_name \o "-service", "name"),
                            !.location =
                                Out(app_name \o "-service", "location"),
                            !.project =
                                Out(app_name \o "-service", "project"),
                            !.role = "roles/run.invoker",
                            !.member = "allUsers"]))
    /\ Goto("export_cloud_run_url")
    /\ UNCHANGED <<locals, invokes, exports>>

Gcp_export_cloud_run_url ==
    /\ At("gcp", "export_cloud_run_url")
    /\ Export("cloud_run_url", Out(app_name \o "-service", "uri"))
    /\ Goto("export_service_name")
    /\ UNCHANGED <<locals, resources, invokes>>

Gcp_export_service_name ==
    /\ At("gcp", "export_service_name")
    /\ Export("service_name", Out(app_name \o "-service", "name"))
    /\ Goto("export_artifact_registry_url")
    /\ UNCHANGED <<locals, resources, invokes>>

Gcp_network ==
    /\ At("gcp", "network")
    /\ Register(Resource(app_name \o "-network", "gcp.compute.Network", {},
                         [NoArgs EXCEPT !.project = project]))
    /\ Goto("firewall")
    /\ UNCHANGED <<locals, invokes, exports>>

Gcp_firewall ==
    /\ At("gcp", "firewall")
    /\ Register(Resource(app_name \o "-firewall", "gcp.compute.Firewall",
                         {app_name \o "-network"},
                         [NoArgs EXCEPT
                            !.project = project,
                            !.tags = {app_name},
                            !.ingress = {[protocol |-> "tcp", from |-> 80,
                                          to |-> 80],
                                         [protocol |-> "tcp", from |-> 8080,
                                          to |-> 8080]}]))
    /\ Goto("service_account")
    /\ UNCHANGED <<locals, invokes, exports>>

Gcp_service_account ==
    /\ At("gcp", "service_account")
    /\ Register(Resource(app_name \o "-sa", "gcp.serviceaccount.Account", {},
                         [NoArgs EXCEPT !.name = app_name \o "-sa",
                                        !.project = project]))
    /\ Goto("storage_access")
    /\ UNCHANGED <<locals, invokes, exports>>

Gcp_storage_access ==
    /\ At("gcp", "storage_access")
    /\ Register(Resource(app_name \o "-storage-access",
                         "gcp.projects.IAMMember", {app_name \o "-sa"},
                         [NoArgs EXCEPT
                            !.project = project,
                            !.role = "roles/storage.objectViewer",
                            !.member = "serviceAccount:"
                                \o Out(app_name \o "-sa", "email")]))
    /\ Goto("instance")
    /\ UNCHANGED <<locals, invokes, exports>>

\* the f-string of lines 120-130: the parameters are args[0..3]
GcpStartupScript(reg, proj, repo, app) ==
    << <<"#!/bin/bash">>,
       <<"apt-get", "update">>,
       <<"apt-get", "install", "-y", "docker.io">>,
       <<>>,
       <<"#", "Configure", "Docker", "to", "use", "Artifact", "Registry">>,
       <<"gcloud", "auth", "configure-docker", reg \o "-docker.pkg.dev">>,
       <<>>,
       <<"#", "Pull", "and", "run", "container">>,
       <<"docker", "pull",
         reg \o "-docker.pkg.dev/" \o proj \o "/" \o repo \o "/" \o app
             \o ":latest">>,
       <<"docker", "run", "-d", "-p", "80:8080",
         reg \o "-docker.pkg.dev/" \o proj \o "/" \o repo \o "/" \o app
             \o ":latest">> >>

Gcp_instance ==
    /\ At("gcp", "instance")
    /\ Register(Resource(app_name \o "-instance", "gcp.compute.Instance",
                         {app_name \o "-network", app_name \o "-sa",
                          app_name \o "-repo"},
                         [NoArgs EXCEPT
                            !.machine = "e2-small",
                            !.location = zone,
                            !.tags = {app_name},
                            !.project = project,
                            !.image = "ubuntu-os-cloud/ubuntu-2004-lts",
                            !.role = Out(app_name \o "-sa", "email"),
                            !.script = GcpStartupScript(region, project,
                                Out(app_name \o "-repo", "repository_id"),
                                app_name)]))
    /\ Goto("export_instance_external_ip")
    /\ UNCHANGED <<locals, invokes, exports>>

Gcp_export_instance_external_ip ==
    /\ At("gcp", "export_instance_external_ip")
    /\ Export("instance_external_ip",
              Out(app_name \o "-instance",
                  "network_interfaces[0].access_configs[0].nat_ip"))
    /\ Goto("export_instance_name")
    /\ UNCHANGED <<locals, resources, invokes>>

Gcp_export_instance_name ==
    /\ At("gcp", "export_instance_name")
    /\ Export("instance_name", Out(app_name \o "-instance", "name"))
    /\ Goto("export_artifact_registry_url")
    /\ UNCHANGED <<locals, resources, invokes>>
\* variant: the cluster starts with a single node
Gcp_cluster_oneNode ==
    /\ At("gcp", "cluster")
    /\ Register(Resource(app_name \o "-gke", "gcp.container.Cluster", {},
                         [NoArgs EXCEPT
                            !.machine = "e2-medium",
                            !.location = zone,
                            !.project = project,
                            !.nodes = [initial_node_count |-> 1]]))
    /\ Goto("export_kubeconfig")
    /\ UNCHANGED <<locals, invokes, exports>>


Gcp_cluster ==
    /\ At("gcp", "cluster")
    /\ Register(Resource(app_name \o "-gke", "gcp.container.Cluster", {},
                         [NoArgs EXCEPT
                            !.machine = "e2-medium",
                            !.location = zone,
                            !.project = project,
                            !.nodes = [initial_node_count |-> 2]]))
    /\ Goto("export_kubeconfig")
    /\ UNCHANGED <<locals, invokes, exports>>

\* the kubeconfig template of lines 184-208 interpolates three outputs of
\* the cluster; only the outputs it is built from are kept
Gcp_export_kubeconfig ==
    /\ At("gcp", "export_kubeconfig")
    /\ Export("kubeconfig",
              "kubeconfig(" \o Out(app_name \o "-gke", "name") \o ","
                  \o Out(app_name \o "-gke", "endpoint") \o ","
                  \o Out(app_name \o "-gke",
                         "master_auth.cluster_ca_certificate") \o ")")
    /\ Goto("export_cluster_name")
    /\ UNCHANGED <<locals, resources, invokes>>

Gcp_export_cluster_name ==
    /\ At("gcp", "export_cluster_name")
    /\ Export("cluster_name", Out(app_name \o "-gke", "name"))
    /\ Goto("export_cluster_endpoint")
    /\ UNCHANGED <<locals, resources, invokes>>

Gcp_export_cluster_endpoint ==
    /\ At("gcp", "export_cluster_endpoint")
    /\ Export("cluster_endpoint", Out(app_name \o "-gke", "endpoint"))
    /\ Goto("export_artifact_registry_url")
    /\ UNCHANGED <<locals, resources, invokes>>

Gcp_export_artifact_registry_url ==
    /\ At("gcp", "export_artifact_registry_url")
    /\ Export("artifact_registry_url",
              region \o "-docker.pkg.dev/" \o project \o "/"
                  \o Out(app_name \o "-repo", "name"))
    /\ Goto("export_deployment_type")
    /\ UNCHANGED <<locals, resources, invokes>>

Gcp_export_deployment_type ==
    /\ At("gcp", "export_deployment_type")
    /\ Export("deployment_type", deployment_type)
    /\ Goto("export_project_id")
    /\ UNCHANGED <<locals, resources, invokes>>

Gcp_export_project_id ==
    /\ At("gcp", "export_project_id")
    /\ Export("project_id", project)
    /\ Finish
    /\ UNCHANGED <<locals, resources, invokes>>

(***************************************************************************)
(* Runs.  `pulumi up` executes the program in a fresh interpreter: no      *)
(* module-level value survives a run.  prev keeps, for the comparison of   *)
(* two runs, what the earlier run of the same configuration produced.      *)
(***************************************************************************)
NoPrev == [known |-> FALSE, status |-> "", ami |-> "", descriptors |-> {}, outputs |-> {}]

\* ids, kinds and dependency edges of the descriptors of a run
Descriptors(rs) ==
    {[id |-> rs[i].id, type |-> rs[i].type, deps |-> rs[i].deps] :
        i \in 1..Len(rs)}

OutputNames(es) == {es[i].name : i \in 1..Len(es)}

Summary ==
    [known |-> TRUE, status |-> status, ami |-> ami,
     descriptors |-> Descriptors(resources), outputs |-> OutputNames(exports)]

Init ==
    /\ cloud \in Clouds
    /\ cfg \in Configs(cloud)
    /\ run = 1
    /\ prev = NoPrev
    /\ pc = "deployment_type"
    /\ status = "running"
    /\ error = ""
    /\ deployment_type = Unbound
    /\ app_name = Unbound
    /\ location = Unbound
    /\ project = Unbound
    /\ region = Unbound
    /\ zone = Unbound
    /\ ami = Unbound
    /\ resources = <<>>
    /\ invokes = <<>>
    /\ exports = <<>>

\* the same stack configuration is run again
Rerun ==
    /\ status # "running"
    /\ run < MaxRuns
    /\ run' = run + 1
    /\ prev' = Summary
    /\ pc' = "deployment_type"
    /\ status' = "running"
    /\ error' = ""
    /\ deployment_type' = Unbound
    /\ app_name' = Unbound
    /\ location' = Unbound
    /\ project' = Unbound
    /\ region' = Unbound
    /\ zone' = Unbound
    /\ ami' = Unbound
    /\ resources' = <<>>
    /\ invokes' = <<>>
    /\ exports' = <<>>
    /\ UNCHANGED <<cloud, cfg>>

Next ==
    \/ Aws_deployment_type \/ Aws_app_name \/ Aws_vpc \/ Aws_ecr_repo
    \/ Aws_if
    \/ Aws_lambda_role \/ Aws_lambda_policy \/ Aws_lambda_function
    \/ Aws_api_gateway \/ Aws_integration \/ Aws_route \/ Aws_stage
    \/ Aws_lambda_permission
    \/ Aws_export_api_endpoint \/ Aws_export_lambda_function_name
    \/ Aws_security_group \/ Aws_ami \/ Aws_ec2_role \/ Aws_ecr_policy
    \/ Aws_instance_profile \/ Aws_instance
    \/ Aws_export_ec2_public_ip \/ Aws_export_ec2_public_dns
    \/ Aws_cluster \/ Aws_export_kubeconfig \/ Aws_export_cluster_name
    \/ Aws_export_ecr_repository_url \/ Aws_export_deployment_type
    \/ Aws_export_vpc_id
    \/ Azure_deployment_type \/ Azure_app_name \/ Azure_location
    \/ Azure_resource_group \/ Azure_acr \/ Azure_if
    \/ Azure_storage_account \/ Azure_app_service_plan \/ Azure_function_app
    \/ Azure_export_function_app_url \/ Azure_export_function_app_name
    \/ Azure_vnet \/ Azure_subnet \/ Azure_public_ip \/ Azure_nsg
    \/ Azure_nic \/ Azure_vm
    \/ Azure_export_vm_public_ip \/ Azure_export_vm_name
    \/ Azure_aks \/ Azure_export_kubeconfig \/ Azure_export_aks_cluster_name
    \/ Azure_export_acr_login_server \/ Azure_export_deployment_type
    \/ Azure_export_resource_group_name
    \/ Gcp_deployment_type \/ Gcp_app_name \/ Gcp_project \/ Gcp_region
    \/ Gcp_zone \/ Gcp_enable_api \/ Gcp_artifact_repo \/ Gcp_if
    \/ Gcp_bucket \/ Gcp_cloud_run_service \/ Gcp_cloud_run_iam
    \/ Gcp_export_cloud_run_url \/ Gcp_export_service_name
    \/ Gcp_network \/ Gcp_firewall \/ Gcp_service_account
    \/ Gcp_storage_access \/ Gcp_instance
    \/ Gcp_export_instance_external_ip \/ Gcp_export_instance_name
    \/ Gcp_cluster \/ Gcp_export_kubeconfig \/ Gcp_export_cluster_name
    \/ Gcp_export_cluster_endpoint
    \/ Gcp_export_artifact_registry_url \/ Gcp_export_deployment_type
    \/ Gcp_export_project_id
    \/ Rerun

Spec == Init /\ [][Next]_vars

(***************************************************************************)
(* Vocabulary of the specification, read on the descriptors of the model   *)
(***************************************************************************)
Allowed(c) ==
    CASE c = "aws"   -> {"lambda", "ec2", "eks"}
      [] c = "azure" -> {"functions", "vm", "aks"}
      [] c = "gcp"   -> {"functions", "compute", "gke"}

Serverless(c) == IF c = "aws" THEN "lambda" ELSE "functions"

\* the deploymentType of the configuration, defaulted
Effective ==
    IF cfg.deploymentType \in {Absent, <<"">>} THEN Serverless(cloud)
                                               ELSE cfg.deploymentType[1]

IdentifyingKey(c) ==
    CASE c = "aws"   -> "vpc_id"
      [] c = "azure" -> "resource_group_name"
      [] c = "gcp"   -> "project_id"

RegistryKey(c) ==
    CASE c = "aws"   -> "ecr_repository_url"
      [] c = "azure" -> "acr_login_server"
      [] c = "gcp"   -> "artifact_registry_url"

CommonKeys(c) == {"deployment_type", RegistryKey(c), IdentifyingKey(c)}

\* the statements that export the common keys, and the end of the program
CommonLabels(c) == {"export_deployment_type", "export_" \o RegistryKey(c),
                    "export_" \o IdentifyingKey(c), "end"}

FunctionTypes == {"aws.lambda_.Function", "azure.web.WebApp",
                  "gcp.cloudrunv2.Service"}

InstanceTypes == {"aws.ec2.Instance", "azure.compute.VirtualMachine",
                  "gcp.compute.Instance"}

ClusterTypes == {"aws.eks.Cluster", "azure.containerservice.ManagedCluster",
                 "gcp.container.Cluster"}

RegistryTypes == {"aws.ecr.Repository", "azure.containerregistry.Registry",
                  "gcp.artifactregistry.Repository"}

NetworkTypes == {"awsx.ec2.Vpc", "azure.network.VirtualNetwork",
                 "gcp.compute.Network"}

OfType(T) == {i \in 1..Len(resources) : resources[i].type \in T}

Ids == {resources[i].id : i \in 1..Len(resources)}

\* the values exported under a name
Exported(name) ==
    {exports[i].value : i \in {j \in 1..Len(exports) : exports[j].name = name}}

(***************************************************************************)
(* C1: a deploymentType outside the cloud's allowed set makes the run fail *)
(* with a configuration error and constructs no descriptor and no export;  *)
(* the run never completes with a partial topology.                        *)
(***************************************************************************)
C1_InvalidTypeRejected ==
    (deployment_type # Unbound /\ deployment_type \notin Allowed(cloud))
        => /\ resources = <<>>
           /\ exports = <<>>
           /\ status # "done"

(***************************************************************************)
(* C2: for gcp, when gcpProject is absent the run fails with a             *)
(* configuration error at the statement that reads it: no descriptor is    *)
(* ever constructed, no provider function is called and nothing is         *)
(* exported, in any state of the run.                                      *)
(***************************************************************************)
C2_MissingProjectFailsFirst ==
    (cloud = "gcp" /\ cfg.gcpProject = Absent)
        => /\ resources = <<>>
           /\ invokes = <<>>
           /\ exports = <<>>
           /\ status # "done"
           /\ pc \notin {"deployment_type", "app_name", "project"}
                => status = "failed" /\ error = "ConfigMissingError"

C2_Witness ==
    /\ cloud = "gcp"
    /\ cfg.gcpProject = Absent
    /\ status = "failed"
    /\ error = "ConfigMissingError"

(***************************************************************************)
(* C3: with deploymentType unspecified the effective type is the cloud's   *)
(* serverless value (lambda, functions, functions), the serverless branch  *)
(* is the one built and the exported deployment_type is that default; with *)
(* an allowed value specified the effective type is that value.            *)
(***************************************************************************)
C3_DefaultIsServerless ==
    /\ (deployment_type # Unbound /\ cfg.deploymentType = Absent)
          => deployment_type = Serverless(cloud)
    /\ (status = "done" /\ cfg.deploymentType = Absent)
          => /\ OfType(FunctionTypes) # {}
             /\ OfType(InstanceTypes \cup ClusterTypes) = {}
             /\ Exported("deployment_type") = {Serverless(cloud)}
    /\ (deployment_type # Unbound /\ cfg.deploymentType # Absent
            /\ cfg.deploymentType[1] \in Allowed(cloud))
          => deployment_type = cfg.deploymentType[1]

C3_Witness ==
    /\ status = "done"
    /\ cfg.deploymentType = Absent
    /\ cloud = "aws"
    /\ Exported("deployment_type") = {"lambda"}

(***************************************************************************)
(* C4: when a run completes, whatever the cloud and the branch, the        *)
(* outputs contain deployment_type with the defaulted deploymentType of    *)
(* the configuration, and the cloud's identifying key: vpc_id (of the VPC  *)
(* descriptor), resource_group_name (of the resource group descriptor) or  *)
(* project_id (the configured project).                                    *)
(***************************************************************************)
C4_CommonOutputs ==
    status = "done"
        => /\ Exported("deployment_type") = {Effective}
           /\ Exported(IdentifyingKey(cloud)) # {}
           /\ cloud = "aws"
                => \E i \in OfType({"awsx.ec2.Vpc"}) :
                      Exported("vpc_id") = {Out(resources[i].id, "vpc_id")}
           /\ cloud = "azure"
                => \E i \in OfType({"azure.resources.ResourceGroup"}) :
                      Exported("resource_group_name")
                          = {Out(resources[i].id, "name")}
           /\ cloud = "gcp"
                => Exported("project_id") = {cfg.gcpProject[1]}

C4_Witness ==
    /\ status = "done"
    /\ cloud = "gcp"
    /\ cfg.deploymentType = <<"gke">>
    /\ Exported("project_id") = {"proj-1"}
    /\ Exported("deployment_type") = {"gke"}

(***************************************************************************)
(* C5: every output name is exported at most once in a run, and no export  *)
(* made inside a branch uses the name of a common key (deployment_type,    *)
(* the registry key, the identifying key): until the program reaches the   *)
(* common exports no common key has been exported, so a branch export      *)
(* never overwrites one.                                                   *)
(***************************************************************************)
C5_ExportsAdditive ==
    /\ \A i, j \in 1..Len(exports) :
          exports[i].name = exports[j].name => i = j
    /\ pc \notin CommonLabels(cloud)
          => OutputNames(exports) \cap CommonKeys(cloud) = {}
    /\ status = "done" => CommonKeys(cloud) \subseteq OutputNames(exports)

C5_Witness ==
    /\ status = "done"
    /\ cloud = "gcp"
    /\ deployment_type = "gke"
    /\ Len(exports) = 6

(***************************************************************************)
(* C6: for each of the nine allowed (cloud, deploymentType) pairs, given   *)
(* the fields the cloud requires, the run never fails, descriptor ids are  *)
(* unique, and every descriptor referenced by another one's arguments was  *)
(* constructed earlier in the same run (so the dependency graph is         *)
(* resolved and acyclic).                                                  *)
(***************************************************************************)
AllowedPair ==
    /\ Effective \in Allowed(cloud)
    /\ cloud = "gcp" => cfg.gcpProject # Absent

C6_GraphResolved ==
    AllowedPair
        => /\ status # "failed"
           /\ \A i, j \in 1..Len(resources) :
                 resources[i].id = resources[j].id => i = j
           /\ \A i \in 1..Len(resources) :
                 resources[i].deps
                     \subseteq {resources[j].id : j \in 1..(i - 1)}

C6_Witness ==
    /\ status = "done"
    /\ cloud = "azure"
    /\ deployment_type = "vm"
    /\ \E i \in 1..Len(resources) :
          /\ resources[i].type = "azure.network.NetworkInterface"
          /\ Cardinality(resources[i].deps) = 4

(***************************************************************************)
(* C7: a run of a configuration that was run before ends the same way as   *)
(* the earlier run and, when it completes, has the same descriptor ids,    *)
(* kinds and dependency edges and the same output names, whatever the      *)
(* environment answered in either run.                                     *)
(***************************************************************************)
C7_Deterministic ==
    (prev.known /\ status # "running")
        => /\ prev.status = status
           /\ prev.descriptors = Descriptors(resources)
           /\ prev.outputs = OutputNames(exports)

C7_Witness ==
    /\ prev.known
    /\ status = "done"
    /\ cloud = "aws"
    /\ deployment_type = "ec2"
    /\ prev.ami # ami
    /\ prev.descriptors = Descriptors(resources)

(***************************************************************************)
(* C8 as claimed: every completed topology has exactly one registry        *)
(* descriptor and, for aws and azure, exactly one network descriptor (VPC, *)
(* VNet), at most one for gcp, each named with appName as prefix, and the  *)
(* registry output is exported.                                            *)
(***************************************************************************)
AppName ==
    IF cfg.appName \in {Absent, <<"">>} THEN "multi-cloud-api"
                                        ELSE cfg.appName[1]

PrefixSuffixes == {"-vpc", "-repo", "acr", "-rg", "-vnet", "-network"}

HasAppPrefix(id) == \E suf \in PrefixSuffixes : id = AppName \o suf

C8_SharedPrefixAsClaimed ==
    status = "done"
        => /\ Cardinality(OfType(RegistryTypes)) = 1
           /\ cloud \in {"aws", "azure"}
                => Cardinality(OfType(NetworkTypes)) = 1
           /\ cloud = "gcp" => Cardinality(OfType(NetworkTypes)) <= 1
           /\ \A i \in OfType(RegistryTypes \cup NetworkTypes) :
                 HasAppPrefix(resources[i].id)
           /\ Exported(RegistryKey(cloud)) # {}

(***************************************************************************)
(* C8 amended: every completed topology has exactly one registry           *)
(* descriptor, named with appName as prefix, built before the dispatch on  *)
(* deployment_type and exported in every branch.  aws has exactly one VPC  *)
(* in every branch; the branch-independent prefix of azure is the resource *)
(* group and the registry, and a VNet exists exactly in the vm branch; gcp *)
(* has a network exactly in the compute branch.                            *)
(***************************************************************************)
C8_SharedPrefix ==
    /\ (status = "running" /\ pc = "if")
          => /\ Cardinality(OfType(RegistryTypes)) = 1
             /\ cloud = "aws" => Cardinality(OfType({"awsx.ec2.Vpc"})) = 1
             /\ cloud = "azure"
                  => Cardinality(OfType({"azure.resources.ResourceGroup"})) = 1
    /\ status = "done"
          => /\ Cardinality(OfType(RegistryTypes)) = 1
             /\ Exported(RegistryKey(cloud)) # {}
             /\ cloud = "aws" => Cardinality(OfType(NetworkTypes)) = 1
             /\ cloud = "azure"
                  => /\ Cardinality(OfType({"azure.resources.ResourceGroup"}))
                          = 1
                     /\ Cardinality(OfType(NetworkTypes))
                          = (IF deployment_type = "vm" THEN 1 ELSE 0)
             /\ cloud = "gcp"
                  => Cardinality(OfType(NetworkTypes))
                          = (IF deployment_type = "compute" THEN 1 ELSE 0)
             /\ \A i \in OfType(RegistryTypes \cup NetworkTypes
                                \cup {"azure.resources.ResourceGroup"}) :
                   HasAppPrefix(resources[i].id)

C8_Witness ==
    /\ status = "done"
    /\ cloud = "azure"
    /\ deployment_type = "aks"
    /\ OfType(NetworkTypes) = {}
    /\ Cardinality(OfType(RegistryTypes)) = 1
    /\ Exported("acr_login_server") # {}

(***************************************************************************)
(* C9 as claimed: aws with lambda builds descriptors named <app>-role,     *)
(* <app>-function, <app>-api, <app>-permission and <app>-repo, and exports *)
(* exactly deployment_type (= "lambda"), vpc_id, ecr_repository_url,       *)
(* lambda_function_name (= "<app>-function") and api_endpoint.             *)
(***************************************************************************)
LambdaDone == status = "done" /\ cloud = "aws" /\ deployment_type = "lambda"

LambdaKeys == {"deployment_type", "vpc_id", "ecr_repository_url",
               "lambda_function_name", "api_endpoint"}

C9_LambdaExampleAsClaimed ==
    LambdaDone
        => /\ {AppName \o "-role", AppName \o "-function", AppName \o "-api",
               AppName \o "-permission", AppName \o "-repo"} \subseteq Ids
           /\ OutputNames(exports) = LambdaKeys
           /\ Exported("deployment_type") = {"lambda"}
           /\ Exported("lambda_function_name") = {AppName \o "-function"}

(***************************************************************************)
(* C9 amended: aws with lambda builds exactly the descriptors              *)
(* <app>-lambda-role (identity), <app>-lambda-policy, <app>-function       *)
(* (serverless), <app>-api (routing endpoint), <app>-integration,          *)
(* <app>-route, <app>-stage, <app>-lambda-permission and the shared        *)
(* <app>-vpc and <app>-repo, and exports exactly the five keys             *)
(* deployment_type (= "lambda"), vpc_id, ecr_repository_url,               *)
(* lambda_function_name (the name output of <app>-function) and            *)
(* api_endpoint: no ec2_* key, no kubeconfig, no cluster_name.             *)
(***************************************************************************)
TypeOf(id) ==
    {resources[i].type : i \in {j \in 1..Len(resources) : resources[j].id = id}}

C9_LambdaExample ==
    LambdaDone
        => /\ Ids = {AppName \o "-vpc", AppName \o "-repo",
                     AppName \o "-lambda-role", AppName \o "-lambda-policy",
                     AppName \o "-function", AppName \o "-api",
                     AppName \o "-integration", AppName \o "-route",
                     AppName \o "-stage", AppName \o "-lambda-permission"}
           /\ TypeOf(AppName \o "-lambda-role") = {"aws.iam.Role"}
           /\ TypeOf(AppName \o "-function") = {"aws.lambda_.Function"}
           /\ TypeOf(AppName \o "-api") = {"aws.apigatewayv2.Api"}
           /\ TypeOf(AppName \o "-lambda-permission")
                = {"aws.lambda_.Permission"}
           /\ TypeOf(AppName \o "-repo") = {"aws.ecr.Repository"}
           /\ OutputNames(exports) = LambdaKeys
           /\ Exported("deployment_type") = {"lambda"}
           /\ Exported("lambda_function_name")
                = {Out(AppName \o "-function", "name")}
           /\ OutputNames(exports)
                \cap {"ec2_public_ip", "ec2_public_dns", "kubeconfig",
                      "cluster_name"} = {}

C9_Witness ==
    /\ LambdaDone
    /\ cfg.appName = <<"demo">>
    /\ "demo-lambda-role" \in Ids
    /\ "demo-role" \notin Ids
    /\ Exported("lambda_function_name") = {"${demo-function.name}"}

(***************************************************************************)
(* C10: in every completed VM/instance topology (aws ec2, azure vm, gcp    *)
(* compute) there is one instance descriptor and it alone carries the      *)
(* bootstrap script; the script has exactly one `docker run` line, of the  *)
(* form `docker run -d -p 80:8080 <image>`; the line comes after the       *)
(* registry login and after the `docker pull`; the pull names the same     *)
(* image, and the image lives on the endpoint of the topology's own        *)
(* registry descriptor, which is also the one the login addresses.         *)
(***************************************************************************)
IsRunLine(l) == Len(l) >= 2 /\ l[1] = "docker" /\ l[2] = "run"

IsPullLine(l) == Len(l) >= 2 /\ l[1] = "docker" /\ l[2] = "pull"

IsLoginLine(l) ==
    \/ \E k \in 1..(Len(l) - 1) : l[k] = "docker" /\ l[k + 1] = "login"
    \/ Len(l) >= 3 /\ l[1] = "gcloud" /\ l[2] = "auth"
                   /\ l[3] = "configure-docker"

\* host the registry descriptor reg is reached at
RegistryHost(reg) ==
    CASE reg.type = "aws.ecr.Repository"
           -> Out(reg.id, "repository_url")
      [] reg.type = "azure.containerregistry.Registry"
           -> Out(reg.id, "login_server")
      [] reg.type = "gcp.artifactregistry.Repository"
           -> reg.args.location \o "-docker.pkg.dev"

\* image of the application on the registry descriptor reg
RegistryImage(reg) ==
    CASE reg.type = "aws.ecr.Repository"
           -> Out(reg.id, "repository_url") \o ":latest"
      [] reg.type = "azure.containerregistry.Registry"
           -> Out(reg.id, "login_server") \o "/" \o AppName \o ":latest"
      [] reg.type = "gcp.artifactregistry.Repository"
           -> reg.args.location \o "-docker.pkg.dev/" \o reg.args.project
                \o "/" \o Out(reg.id, "repository_id") \o "/" \o AppName
                \o ":latest"

ScriptOk(s, reg) ==
    LET Runs   == {k \in 1..Len(s) : IsRunLine(s[k])}
        Pulls  == {k \in 1..Len(s) : IsPullLine(s[k])}
        Logins == {k \in 1..Len(s) : IsLoginLine(s[k])}
    IN  /\ Cardinality(Runs) = 1
        /\ Pulls # {}
        /\ Logins # {}
        /\ \A r \in Runs :
              /\ s[r] = <<"docker", "run", "-d", "-p", "80:8080",
                          RegistryImage(reg)>>
              /\ \A p \in Pulls : p < r /\ s[p] = <<"docker", "pull", s[r][6]>>
              /\ \A g \in Logins :
                    /\ g < r
                    /\ \E k \in 1..Len(s[g]) : s[g][k] = RegistryHost(reg)

C10_BootstrapScript ==
    (status = "done" /\ Effective \in {"ec2", "vm", "compute"}
         /\ Effective \in Allowed(cloud))
        => /\ Cardinality(OfType(InstanceTypes)) = 1
           /\ Cardinality(OfType(RegistryTypes)) = 1
           /\ \A i \in 1..Len(resources) :
                 (resources[i].args.script # <<>>) <=> (i \in OfType(InstanceTypes))
           /\ \A i \in OfType(InstanceTypes) : \A g \in OfType(RegistryTypes) :
                 ScriptOk(resources[i].args.script, resources[g])

C10_Witness ==
    /\ status = "done"
    /\ cloud = "azure"
    /\ deployment_type = "vm"
    /\ \E i \in OfType(InstanceTypes) :
          \E k \in 1..Len(resources[i].args.script) :
             resources[i].args.script[k]
                 = <<"docker", "run", "-d", "-p", "80:8080",
                     "${" \o AppName \o "acr.login_server}/" \o AppName
                         \o ":latest">>

(***************************************************************************)
(* C11 as claimed: in every cloud the completed serverless topology has an *)
(* identity/role descriptor, a serverless compute descriptor whose image   *)
(* is on the topology's registry, a public routing-endpoint descriptor     *)
(* with a single default route and stage, and a permission binding that    *)
(* lets the routing layer invoke the compute descriptor.                   *)
(***************************************************************************)
ServerlessDone ==
    status = "done" /\ deployment_type = Serverless(cloud)

IdentityTypes == {"aws.iam.Role", "gcp.serviceaccount.Account"}

RoutingTypes == {"aws.apigatewayv2.Api"}

BindingTypes == {"aws.lambda_.Permission", "gcp.cloudrunv2.ServiceIamMember"}

\* image reference of the application on reg, as a function runtime takes it
FunctionImage(reg) ==
    IF reg.type = "azure.containerregistry.Registry"
       THEN "DOCKER|" \o RegistryImage(reg)
       ELSE RegistryImage(reg)

FunctionOnRegistry ==
    /\ Cardinality(OfType(FunctionTypes)) = 1
    /\ Cardinality(OfType(RegistryTypes)) = 1
    /\ \A f \in OfType(FunctionTypes) : \A g \in OfType(RegistryTypes) :
          /\ resources[f].args.image = FunctionImage(resources[g])
          /\ resources[g].id \in resources[f].deps

SingleDefaultRoute ==
    /\ Cardinality(OfType(RoutingTypes)) = 1
    /\ \A a \in OfType(RoutingTypes) :
          /\ \E r \in OfType({"aws.apigatewayv2.Route"}) :
                /\ OfType({"aws.apigatewayv2.Route"}) = {r}
                /\ resources[r].args.route = "$default"
                /\ resources[a].id \in resources[r].deps
          /\ \E t \in OfType({"aws.apigatewayv2.Stage"}) :
                /\ OfType({"aws.apigatewayv2.Stage"}) = {t}
                /\ resources[t].args.name = "$default"
                /\ resources[a].id \in resources[t].deps

RoutingMayInvoke ==
    \E b \in OfType(BindingTypes) :
       /\ OfType(BindingTypes) = {b}
       /\ \A f \in OfType(FunctionTypes) : resources[f].id \in resources[b].deps
       /\ \A a \in OfType(RoutingTypes) : resources[a].id \in resources[b].deps
       /\ resources[b].args.role = "lambda:InvokeFunction"
       /\ resources[b].args.member = "apigateway.amazonaws.com"

C11_ServerlessBranchAsClaimed ==
    ServerlessDone
        => /\ OfType(IdentityTypes) # {}
           /\ FunctionOnRegistry
           /\ SingleDefaultRoute
           /\ RoutingMayInvoke

(***************************************************************************)
(* C11 amended: in every cloud the completed serverless topology has       *)
(* exactly one serverless compute descriptor, whose image is on the        *)
(* topology's registry.  Only aws builds the other three: a role assumed   *)
(* by lambda and used by the function, an HTTP API with one $default route *)
(* and one $default stage, and a permission letting API Gateway invoke the *)
(* function.  azure builds a storage account, a plan and the function app  *)
(* and no identity, routing or permission descriptor; gcp builds a bucket, *)
(* the Cloud Run service and a binding of roles/run.invoker to allUsers on *)
(* it, and no identity or routing descriptor.                              *)
(***************************************************************************)
BranchIds == Ids \ {resources[i].id :
                      i \in OfType(RegistryTypes
                                   \cup {"awsx.ec2.Vpc",
                                         "azure.resources.ResourceGroup",
                                         "gcp.projects.Service"})}

C11_ServerlessBranch ==
    ServerlessDone
        => /\ FunctionOnRegistry
           /\ cloud = "aws"
                => /\ SingleDefaultRoute
                   /\ RoutingMayInvoke
                   /\ \E r \in OfType(IdentityTypes) :
                         /\ OfType(IdentityTypes) = {r}
                         /\ resources[r].args.member = "lambda.amazonaws.com"
                         /\ \A f \in OfType(FunctionTypes) :
                               /\ resources[r].id \in resources[f].deps
                               /\ resources[f].args.role
                                    = Out(resources[r].id, "arn")
           /\ cloud = "azure"
                => /\ OfType(IdentityTypes \cup RoutingTypes
                             \cup BindingTypes) = {}
                   /\ BranchIds = {AppName \o "storage", AppName \o "-plan",
                                   AppName \o "-func"}
           /\ cloud = "gcp"
                => /\ OfType(IdentityTypes \cup RoutingTypes) = {}
                   /\ BranchIds = {AppName \o "-bucket", AppName \o "-service",
                                   AppName \o "-invoker"}
                   /\ \E b \in OfType(BindingTypes) :
                         /\ OfType(BindingTypes) = {b}
                         /\ resources[b].args.role = "roles/run.invoker"
                         /\ resources[b].args.member = "allUsers"
                         /\ \A f \in OfType(FunctionTypes) :
                               resources[f].id \in resources[b].deps

C11_Witness ==
    /\ ServerlessDone
    /\ cloud = "azure"
    /\ cfg.appName = <<"demo">>
    /\ \E f \in OfType(FunctionTypes) :
          resources[f].args.image
              = "DOCKER|${demoacr.login_server}/demo:latest"
    /\ OfType(RoutingTypes) = {}

(***************************************************************************)
(* C12: in every completed VM/instance topology (aws ec2, azure vm, gcp    *)
(* compute) one perimeter descriptor opens exactly the inbound TCP ports   *)
(* 80 and 8080 and leaves egress open, an identity descriptor is granted   *)
(* read access to the image registry, and exactly one instance is built,   *)
(* which uses that identity and sits behind that perimeter.                *)
(***************************************************************************)
VmDone ==
    status = "done" /\ deployment_type \in {"ec2", "vm", "compute"}
                    /\ deployment_type \in Allowed(cloud)

PerimeterTypes == {"aws.ec2.SecurityGroup",
                   "azure.network.NetworkSecurityGroup",
                   "gcp.compute.Firewall"}

\* roles that let their holder pull images from the cloud's registry
RegistryReadRoles ==
    {"arn:aws:iam::aws:policy/AmazonEC2ContainerRegistryReadOnly",
     "AcrPull", "roles/artifactregistry.reader"}

InboundPorts(r) == UNION {rule.from .. rule.to : rule \in r.args.ingress}

InboundTcpOnly(r) ==
    \A rule \in r.args.ingress : rule.protocol \in {"tcp", "Tcp"}

\* a security group allows the egress it lists; a network security group
\* and a firewall without outbound rule leave the platform's allow-all
EgressOpen(r) ==
    IF r.type = "aws.ec2.SecurityGroup"
       THEN [protocol |-> "-1", from |-> 0, to |-> 0] \in r.args.egress
       ELSE r.args.egress = {}

\* descriptor i refers to id, directly or through one descriptor between
Uses(i, id) ==
    \/ id \in resources[i].deps
    \/ \E k \in 1..Len(resources) :
          resources[k].id \in resources[i].deps /\ id \in resources[k].deps

PerimeterOpensWebPorts ==
    \E p \in OfType(PerimeterTypes) :
       /\ OfType(PerimeterTypes) = {p}
       /\ InboundPorts(resources[p]) = {80, 8080}
       /\ InboundTcpOnly(resources[p])
       /\ EgressOpen(resources[p])

InstanceBehindPerimeter ==
    \A i \in OfType(InstanceTypes) : \A p \in OfType(PerimeterTypes) :
       \/ Uses(i, resources[p].id)
       \/ /\ resources[p].args.tags # {}
          /\ resources[p].args.tags \subseteq resources[i].args.tags

IdentityReadsRegistry ==
    \E r \in OfType(IdentityTypes) : \E b \in 1..Len(resources) :
       /\ resources[b].args.role \in RegistryReadRoles
       /\ resources[r].id \in resources[b].deps
       /\ \A i \in OfType(InstanceTypes) : Uses(i, resources[r].id)

C12_VmPerimeterAndIdentity ==
    VmDone
        => /\ Cardinality(OfType(InstanceTypes)) = 1
           /\ PerimeterOpensWebPorts
           /\ InstanceBehindPerimeter
           /\ IdentityReadsRegistry

(***************************************************************************)
(* C13 as claimed: every completed managed-cluster topology (aws eks,      *)
(* azure aks, gcp gke) has exactly one cluster descriptor whose node pool  *)
(* has minimum 1, maximum 3 and default 2, whose machine size is the       *)
(* cloud's fixed constant, and which depends on the shared network         *)
(* descriptor.                                                             *)
(***************************************************************************)
ClusterDone ==
    status = "done" /\ deployment_type \in {"eks", "aks", "gke"}
                    /\ deployment_type \in Allowed(cloud)

ClusterMachine(c) ==
    CASE c = "aws"   -> "t3.medium"
      [] c = "azure" -> "Standard_B2s"
      [] c = "gcp"   -> "e2-medium"

\* the values a node pool gives under the argument names in keys
PoolValues(r, keys) ==
    {r.args.nodes[k] : k \in {x \in keys : x \in DOMAIN r.args.nodes}}

MinNodes(r) == PoolValues(r, {"min_size"})

MaxNodes(r) == PoolValues(r, {"max_size"})

DefaultNodes(r) ==
    PoolValues(r, {"desired_capacity", "count", "initial_node_count"})

C13_ClusterPoolAsClaimed ==
    ClusterDone
        => /\ Cardinality(OfType(ClusterTypes)) = 1
           /\ \A c \in OfType(ClusterTypes) :
                 /\ MinNodes(resources[c]) = {1}
                 /\ DefaultNodes(resources[c]) = {2}
                 /\ MaxNodes(resources[c]) = {3}
                 /\ resources[c].args.machine = ClusterMachine(cloud)
                 /\ \E n \in OfType(NetworkTypes) :
                       resources[n].id \in resources[c].deps

(***************************************************************************)
(* C13 amended: every completed managed-cluster topology has exactly one   *)
(* cluster descriptor, with a default of 2 nodes and a machine size that   *)
(* is a fixed per-cloud constant (t3.medium, Standard_B2s, e2-medium)      *)
(* whatever the configuration.  Only aws bounds the pool (minimum 1,       *)
(* maximum 3, so min <= default <= max) and depends on the shared VPC;     *)
(* aks and gke declare no minimum and no maximum, aks depends only on the  *)
(* resource group and gke on no other descriptor.                          *)
(***************************************************************************)
C13_ClusterPool ==
    ClusterDone
        => /\ Cardinality(OfType(ClusterTypes)) = 1
           /\ \A c \in OfType(ClusterTypes) :
                 /\ DefaultNodes(resources[c]) = {2}
                 /\ resources[c].args.machine = ClusterMachine(cloud)
                 /\ cloud = "aws"
                      => /\ MinNodes(resources[c]) = {1}
                         /\ MaxNodes(resources[c]) = {3}
                         /\ resources[c].deps
                              = {resources[n].id : n \in OfType(NetworkTypes)}
                         /\ Cardinality(resources[c].deps) = 1
                 /\ cloud = "azure"
                      => /\ MinNodes(resources[c]) = {}
                         /\ MaxNodes(resources[c]) = {}
                         /\ OfType(NetworkTypes) = {}
                         /\ resources[c].deps
                              = {resources[n].id :
                                   n \in OfType({"azure.resources.ResourceGroup"})}
                 /\ cloud = "gcp"
                      => /\ MinNodes(resources[c]) = {}
                         /\ MaxNodes(resources[c]) = {}
                         /\ OfType(NetworkTypes) = {}
                         /\ resources[c].deps = {}

C13_Witness ==
    /\ ClusterDone
    /\ cloud = "gcp"
    /\ cfg.zone # Absent
    /\ \E c \in OfType(ClusterTypes) :
          /\ resources[c].args.nodes = [initial_node_count |-> 2]
          /\ resources[c].args.machine = "e2-medium"
          /\ resources[c].args.location = "europe-west1-b"

(***************************************************************************)
(* C14: in every state of every run, descriptors and output keys of a      *)
(* branch exist only if deployment_type is that branch's value, and a      *)
(* completed run of a branch has all of that branch's descriptors and      *)
(* keys and no descriptor beyond them and the shared prefix; so the        *)
(* resources and outputs of two branches never coexist.                    *)
(***************************************************************************)
BranchSuffixes(c, b) ==
    CASE c = "aws" /\ b = "lambda"
           -> {"-lambda-role", "-lambda-policy", "-function", "-api",
               "-integration", "-route", "-stage", "-lambda-permission"}
      [] c = "aws" /\ b = "ec2"
           -> {"-sg", "-ec2-role", "-ecr-policy", "-instance-profile",
               "-instance"}
      [] c = "aws" /\ b = "eks"           -> {"-eks"}
      [] c = "azure" /\ b = "functions"   -> {"storage", "-plan", "-func"}
      [] c = "azure" /\ b = "vm"
           -> {"-vnet", "-subnet", "-ip", "-nsg", "-nic", "-vm"}
      [] c = "azure" /\ b = "aks"         -> {"-aks"}
      [] c = "gcp" /\ b = "functions"
           -> {"-bucket", "-service", "-invoker"}
      [] c = "gcp" /\ b = "compute"
           -> {"-network", "-firewall", "-sa", "-storage-access",
               "-instance"}
      [] c = "gcp" /\ b = "gke"           -> {"-gke"}

BranchKeys(c, b) ==
    CASE c = "aws" /\ b = "lambda"
           -> {"api_endpoint", "lambda_function_name"}
      [] c = "aws" /\ b = "ec2"     -> {"ec2_public_ip", "ec2_public_dns"}
      [] c = "aws" /\ b = "eks"     -> {"kubeconfig", "cluster_name"}
      [] c = "azure" /\ b = "functions"
           -> {"function_app_url", "function_app_name"}
      [] c = "azure" /\ b = "vm"    -> {"vm_public_ip", "vm_name"}
      [] c = "azure" /\ b = "aks"   -> {"kubeconfig", "aks_cluster_name"}
      [] c = "gcp" /\ b = "functions"
           -> {"cloud_run_url", "service_name"}
      [] c = "gcp" /\ b = "compute"
           -> {"instance_external_ip", "instance_name"}
      [] c = "gcp" /\ b = "gke"
           -> {"kubeconfig", "cluster_name", "cluster_endpoint"}

BranchIdsOf(c, b) == {AppName \o suf : suf \in BranchSuffixes(c, b)}

C14_OneBranchOnly ==
    /\ \A b \in Allowed(cloud) :
          /\ deployment_type # b
                => /\ BranchIdsOf(cloud, b) \cap Ids = {}
                   /\ BranchKeys(cloud, b) \cap OutputNames(exports) = {}
          /\ (status = "done" /\ deployment_type = b)
                => /\ BranchIdsOf(cloud, b) = BranchIds
                   /\ BranchKeys(cloud, b)
                        = OutputNames(exports) \ CommonKeys(cloud)
    /\ (status = "done" /\ deployment_type \notin Allowed(cloud))
          => /\ BranchIds = {}
             /\ OutputNames(exports) = CommonKeys(cloud)

C14_Witness ==
    /\ status = "done"
    /\ cloud = "aws"
    /\ deployment_type = "ec2"
    /\ {"ec2_public_ip", "ec2_public_dns"} \subseteq OutputNames(exports)
    /\ OutputNames(exports)
          \cap {"api_endpoint", "lambda_function_name", "kubeconfig",
                "cluster_name"} = {}
    /\ AppName \o "-instance" \in Ids
    /\ AppName \o "-function" \notin Ids

====
